---- MODULE Spec2Model ----
(***************************************************************************)
(* Model of the spreadsheet-ledger coordination core of ghetto_botato:     *)
(* the GoogleAPI handlers (src/src/google/GoogleAPI.ts), the one shared    *)
(* TaskQueue they submit to, the HeldTask registry keyed by user id, and   *)
(* the remote game-request and bidwar sheets.                              *)
(*                                                                         *)
(* TaskQueue.ts, HeldTask.ts, Future.ts and the spreadsheet classes are    *)
(* imported by GoogleAPI.ts but are not among the source files; they are   *)
(* modelled from spec.md (sections 3, 4.2, 4.3, 9).                        *)
(*                                                                         *)
(* A remote sheet is the set of requests whose mutation it reflects: a     *)
(* read copies that set, a push replaces the remote set by the local copy. *)
(***************************************************************************)
EXTENDS Integers, Sequences, FiniteSets, TLC

\* ------------------------------------------------------------ bounds
MaxReq == 3
NumUsers == 2
MaxCost == 2
\* token values the identity service can hand out
NumTokens == 2
\* requests the local http server of loadUserToken receives
MaxRequests == 2
\* twitch ids the user-info endpoint can answer with
NumIds == 2
\* usernames seen in chat
NumNames == 2
\* calls of getTwitchIdWithCache(username)
MaxLookups == 2
\* PART messages
MaxParts == 2
\* calls of TwitchBotBase.chat
MaxChats == 2
\* game names, title substrings, calls of callCommandFunctionFromConfig
NumGames == 2
NumSubstrings == 2
MaxCalls == 1
\* how far around maxChatMessageLength the message lengths go
Margin == 2
\* pointsToActivate of the one game entry of the game-request sheet
PointsToActivate == 1

Req == 1..MaxReq
Users == 1..NumUsers
Costs == 1..MaxCost

Kinds == {"redeem", "gameAdd", "cheer", "contribute", "addEntry", "addFunds"}
GRKinds == {"redeem", "gameAdd"}
NoReq == [kind |-> "none", user |-> 0, cost |-> 0, anon |-> FALSE]

VARIABLES
    sheets,       \* _googleSheets Future: TRUE once startup() has resolved it
    nreq,         \* number of handler calls made so far
    req,          \* req[r]: the arguments of handler call r
    queue,        \* TaskQueue: the pending tasks, oldest first
    draining,     \* TaskQueue: the drain loop is active
    running,      \* TaskQueue: the task the drain loop awaits, 0 if none
    pc,           \* pc[r]: where task r is
    startOrder,   \* the tasks in the order the drain loop started them
    snap,         \* snap[r]: the spreadsheet object task r read
    remoteGR,     \* the remote game-request sheet
    remoteBW,     \* the remote bidwar sheet
    initEntry,    \* the game already has an entry in the game-request sheet
    pushed,       \* requests whose task completed a pushSpreadsheet
    heldPushed,   \* requests whose held completion completed a pushSpreadsheet
    future,       \* future[r]: the Future the handler returned
    redemption,   \* redemption[r]: channel-point redemption status
    chat,         \* chat[r]: the chat messages sent for request r
    held,         \* heldTasksByUserId: user id -> request, 0 if none
    htask,        \* htask[r]: the HeldTask built for r (its two closures)
    hstate,       \* hstate[r]: settlement state of the HeldTask of r
    timer,        \* timer[r]: the deadline timer of the HeldTask of r is armed
    completeRuns, \* times the complete closure of r was invoked
    cancelRuns,   \* times the cancel closure of r was invoked
    cpc,          \* position inside the complete closure of r
    xpc,          \* position inside the cancel closure of r
    yesOn,        \* requests whose HeldTask was the target of a complete(key)
    expired,      \* requests whose deadline elapsed
    lastReport,   \* what the last complete(key)/cancel(key) reported
    tpc,          \* TwitchBotBase._startup: the call it is at
    twitchAppToken,   \* _twitchAppToken Future: Unsettled or its value
    userAccessToken,  \* _userAccessToken Future: Unsettled or its value
    stored,       \* a user token is stored in the keychain
    listening,    \* the http server of loadUserToken is listening
    requests,     \* requests the http server has received
    resolveCalls, \* resolve calls made on _userAccessToken
    recv,         \* recv[a]: what awaiter a of _userAccessToken has got
    early,        \* the awaiters that began to await before settlement
    tokenUserId,  \* the user_id field of the user token object, NoId if absent
    selfpc,       \* getTwitchIdWithCache() without username: where the call is
    subscription, \* the token the EventSub subscription request was sent with
    twitchIdByUsername, \* _twitchIdByUsername: username -> id, NoId if absent
    lpc,          \* lpc[l]: where call l of getTwitchIdWithCache(username) is
    lname,        \* lname[l]: the username call l was made with
    lstale,       \* the calls that were in flight when a PART of their username was handled
    staleEntry,   \* the usernames whose cache entry was written by such a call
    parts,        \* PART messages handled so far
    ircChat,      \* the chat calls: the message given and the one forwarded to IrcBotBase.chat
    cmdCalls      \* the calls of callCommandFunctionFromConfig: arguments and outcome

execVars == <<queue, draining, running, pc, startOrder>>
reqVars == <<nreq, req>>
sheetVars == <<remoteGR, remoteBW, pushed, heldPushed>>
heldVars == <<held, htask, hstate, timer, completeRuns, cancelRuns, cpc, xpc, yesOn,
              expired, lastReport>>
googleVars == <<sheets, nreq, req, queue, draining, running, pc, startOrder, snap,
                remoteGR, remoteBW, initEntry, pushed, heldPushed, future,
                redemption, chat, held, htask, hstate, timer, completeRuns,
                cancelRuns, cpc, xpc, yesOn, expired, lastReport>>
twitchVars == <<tpc, twitchAppToken, userAccessToken, stored, listening,
                requests, resolveCalls, recv, early>>
vars == <<sheets, nreq, req, queue, draining, running, pc, startOrder, snap,
          remoteGR, remoteBW, initEntry, pushed, heldPushed, future,
          redemption, chat, held, htask, hstate, timer, completeRuns,
          cancelRuns, cpc, xpc, yesOn, expired, lastReport,
          tpc, twitchAppToken, userAccessToken, stored, listening,
          requests, resolveCalls, recv, early,
          tokenUserId, selfpc, subscription,
          twitchIdByUsername, lpc, lname, lstale, staleEntry, parts,
          ircChat, cmdCalls>>
tokenUseVars == <<tokenUserId, selfpc, subscription>>
cacheVars == <<twitchIdByUsername, lpc, lname, lstale, staleEntry, parts>>
chatVars == <<ircChat>>
cmdVars == <<cmdCalls>>
auxVars == <<tokenUseVars, cacheVars, chatVars, cmdVars>>

\* The awaiters of _userAccessToken
Awaiters == {"timeout", "handleEventSubWelcome", "getTwitchIdWithCache"}
Ids == 1..NumIds
NoId == 0
\* No EventSub subscription request sent yet
NotSent == 0 - 1
Tokens == 1..NumTokens
\* The state of a Future nobody has resolved, and of an awaiter before its
\* await and while it waits
Unsettled == 0
Idle == 0 - 1
Waiting == 0

\* TwitchBotBase after construction: both Futures new, _startup not yet run
TwitchInit ==
    /\ tpc = "loadAuthToken"
    /\ twitchAppToken = Unsettled
    /\ userAccessToken = Unsettled
    /\ listening = FALSE
    /\ requests = 0
    /\ resolveCalls = 0
    /\ recv = [a \in Awaiters |-> Idle]
    /\ early = {}

\* No call of getTwitchIdWithCache() made, no welcome message handled
TokenUseInit ==
    /\ selfpc = "idle"
    /\ subscription = NotSent

\* No username given
NoName == 0
Names == 1..NumNames
Lookups == 1..MaxLookups

\* _twitchIdByUsername = {} (line 170), no lookup made, no PART handled
CacheInit ==
    /\ twitchIdByUsername = [n \in Names |-> NoId]
    /\ lpc = [l \in Lookups |-> "idle"]
    /\ lname = [l \in Lookups |-> NoName]
    /\ lstale = {}
    /\ staleEntry = {}
    /\ parts = 0

\* No chat call made
ChatInit == ircChat = <<>>

\* No command posted automatically yet
CommandInit == cmdCalls = <<>>

\* GoogleAPI after construction
GoogleInit ==
    /\ sheets = FALSE
    /\ nreq = 0
    /\ req = [r \in Req |-> NoReq]
    /\ queue = <<>>
    /\ draining = FALSE
    /\ running = 0
    /\ pc = [r \in Req |-> "none"]
    /\ startOrder = <<>>
    /\ snap = [r \in Req |-> {}]
    /\ remoteGR = {}
    /\ remoteBW = {}
    /\ initEntry \in BOOLEAN
    /\ pushed = {}
    /\ heldPushed = {}
    /\ future = [r \in Req |-> "none"]
    /\ redemption = [r \in Req |-> "none"]
    /\ chat = [r \in Req |-> {}]
    /\ held = [u \in Users |-> 0]
    /\ htask = [r \in Req |-> [complete |-> "none", cancel |-> "none"]]
    /\ hstate = [r \in Req |-> "none"]
    /\ timer = [r \in Req |-> FALSE]
    /\ completeRuns = [r \in Req |-> 0]
    /\ cancelRuns = [r \in Req |-> 0]
    /\ cpc = [r \in Req |-> "idle"]
    /\ xpc = [r \in Req |-> "idle"]
    /\ yesOn = {}
    /\ expired = {}
    /\ lastReport = "none"

Init ==
    /\ GoogleInit
    /\ TwitchInit /\ stored = FALSE
    /\ TokenUseInit /\ tokenUserId = NoId
    /\ CacheInit
    /\ ChatInit
    /\ CommandInit

\* ------------------------------------------------------------ startup
\* GoogleAPI.startup: resolves the _googleSheets Future
startup ==
    /\ ~sheets
    /\ sheets' = TRUE
    /\ UNCHANGED <<reqVars, execVars, snap, initEntry, sheetVars, future,
                   redemption, chat, heldVars>>

\* ------------------------------------------------------------ TaskQueue
\* TaskQueue.addTask: append to the tail of the pending sequence
addTask(q, r) == Append(q, r)

\* The drain loop at the point where it looks at the pending sequence q (p is
\* the tasks' positions): pop the head and execute it, or stop when q is empty.
Drain(q, p) ==
    IF q = <<>>
    THEN /\ queue' = <<>>
         /\ running' = 0
         /\ draining' = FALSE
         /\ pc' = p
         /\ UNCHANGED startOrder
    ELSE /\ queue' = Tail(q)
         /\ running' = Head(q)
         /\ draining' = TRUE
         /\ pc' = [p EXCEPT ![Head(q)] = "read"]
         /\ startOrder' = Append(startOrder, Head(q))

\* A startQueue that starts a drain loop whether or not one is active
startQueue_Restarts(q, p) == Drain(q, p)

\* TaskQueue.startQueue: a no-op while the loop is draining, else start it
startQueue(q, p) ==
    IF draining
    THEN /\ queue' = q
         /\ pc' = p
         /\ UNCHANGED <<running, draining, startOrder>>
    ELSE Drain(q, p)

\* The drain loop when the task it awaits has returned normally
TaskReturned(r, p) ==
    IF running = r
    THEN Drain(queue, p)
    ELSE /\ pc' = p
         /\ UNCHANGED <<queue, running, draining, startOrder>>

\* A drain loop that dies with the task that threw, its flag left set
TaskThrew_HaltsQueue(r, p) ==
    /\ pc' = p
    /\ running' = IF running = r THEN 0 ELSE running
    /\ UNCHANGED <<queue, draining, startOrder>>

\* The drain loop when the task it awaits has thrown: the failure is
\* contained and the loop proceeds to the next task
TaskThrew(r, p) ==
    IF running = r
    THEN Drain(queue, p)
    ELSE /\ pc' = p
         /\ UNCHANGED <<queue, running, draining, startOrder>>

\* ------------------------------------------------------------ handlers: submission
\* A handler that adds its task and never calls startQueue
SubmitTask_NoStart(r, rec) ==
    /\ req' = [req EXCEPT ![r] = rec]
    /\ nreq' = r
    /\ future' = [future EXCEPT ![r] = "pending"]
    /\ redemption' = [redemption EXCEPT
                         ![r] = IF rec.kind = "redeem" THEN "open" ELSE "none"]
    /\ queue' = addTask(queue, r)
    /\ pc' = [pc EXCEPT ![r] = "queued"]
    /\ UNCHANGED <<running, draining, startOrder>>
    /\ UNCHANGED <<sheets, snap, initEntry, sheetVars, chat, heldVars>>

\* What every handler does with the task it has built: new Future, addTask,
\* startQueue, return the Future.
SubmitTask(r, rec) ==
    /\ req' = [req EXCEPT ![r] = rec]
    /\ nreq' = r
    /\ future' = [future EXCEPT ![r] = "pending"]
    /\ redemption' = [redemption EXCEPT
                         ![r] = IF rec.kind = "redeem" THEN "open" ELSE "none"]
    /\ startQueue(addTask(queue, r), [pc EXCEPT ![r] = "queued"])
    /\ UNCHANGED <<sheets, snap, initEntry, sheetVars, chat, heldVars>>

\* A handler that calls its task itself instead of handing it to the queue
RunTaskDirectly(r, rec) ==
    /\ req' = [req EXCEPT ![r] = rec]
    /\ nreq' = r
    /\ future' = [future EXCEPT ![r] = "pending"]
    /\ redemption' = [redemption EXCEPT
                         ![r] = IF rec.kind = "redeem" THEN "open" ELSE "none"]
    /\ pc' = [pc EXCEPT ![r] = "read"]
    /\ UNCHANGED <<queue, running, draining, startOrder>>
    /\ UNCHANGED <<sheets, snap, initEntry, sheetVars, chat, heldVars>>

handleGameRequestFund_Unqueued(r, u, c) ==
    RunTaskDirectly(r, [kind |-> "redeem", user |-> u, cost |-> c, anon |-> FALSE])

\* GoogleAPI.handleGameRequestFund, lines 110 and 140-143
handleGameRequestFund(r, u, c) ==
    SubmitTask(r, [kind |-> "redeem", user |-> u, cost |-> c, anon |-> FALSE])

\* GoogleAPI.handleGameRequestRedeem, line 77: the redemption event of user u
\* for c points arrives
handleGameRequestRedeem ==
    /\ nreq < MaxReq
    /\ \E u \in Users, c \in Costs : handleGameRequestFund(nreq + 1, u, c)

\* GoogleAPI.handleGameRequestAdd, lines 147 and 171-174
handleGameRequestAdd ==
    /\ nreq < MaxReq
    /\ \E c \in Costs :
          SubmitTask(nreq + 1, [kind |-> "gameAdd", user |-> 0, cost |-> c, anon |-> FALSE])

handleCheer_Unqueued ==
    /\ nreq < MaxReq
    /\ \E a \in BOOLEAN :
          RunTaskDirectly(nreq + 1, [kind |-> "cheer", user |-> 0, cost |-> 0, anon |-> a])

\* GoogleAPI.handleCheer, lines 178 and 188-191
handleCheer ==
    /\ nreq < MaxReq
    /\ \E a \in BOOLEAN :
          SubmitTask(nreq + 1, [kind |-> "cheer", user |-> 0, cost |-> 0, anon |-> a])

\* GoogleAPI.handleBidwarContribute, lines 195 and 209-212
handleBidwarContribute ==
    /\ nreq < MaxReq
    /\ SubmitTask(nreq + 1, [kind |-> "contribute", user |-> 0, cost |-> 0, anon |-> FALSE])

\* GoogleAPI.handleBidwarAddEntry, lines 216 and 232-235
handleBidwarAddEntry ==
    /\ nreq < MaxReq
    /\ SubmitTask(nreq + 1, [kind |-> "addEntry", user |-> 0, cost |-> 0, anon |-> FALSE])

\* GoogleAPI.handleBidwarAddFunds, lines 239 and 251-254
handleBidwarAddFunds ==
    /\ nreq < MaxReq
    /\ SubmitTask(nreq + 1, [kind |-> "addFunds", user |-> 0, cost |-> 0, anon |-> FALSE])


\* ------------------------------------------------------------ spreadsheets
\* GameRequest_Spreadsheet.findEntry: the game has an entry in sheet S
findEntry(S) == initEntry \/ \E a \in S : req[a].kind = "gameAdd"

RECURSIVE SumCost(_)
SumCost(S) ==
    IF S = {} THEN 0
    ELSE LET a == CHOOSE x \in S : TRUE IN req[a].cost + SumCost(S \ {a})

\* existingEntry.pointsContributed in sheet S
pointsContributed(S) == SumCost(S)

\* GameRequest_Spreadsheet.addPointsToEntry / addEntry and
\* Bidwar_Spreadsheet.addBitsToUser / spendBitsOnEntry / addEntry, each on the
\* local spreadsheet object S
addPointsToEntry(S, r) == S \cup {r}
addEntry(S, r) == S \cup {r}
addBitsToUser(S, r) == S \cup {r}
spendBitsOnEntry(S, r) == S \cup {r}

\* The outcomes of Bidwar_Spreadsheet.spendBitsOnEntry / addEntry
Status == [success : BOOLEAN, message : BOOLEAN]

\* pushSpreadsheet: the remote sheet becomes the local spreadsheet object
pushSpreadsheet(local) == local

\* ------------------------------------------------------------ task steps
\* One step of task r up to its next await: it goes on to its push ("push"),
\* returns ("return") or throws ("throw"); fut is what it resolves its Future
\* with ("same": it does not), msgs the chat messages it sends.
TaskStep(r, end, fut, msgs) ==
    /\ future' = IF fut = "same" THEN future ELSE [future EXCEPT ![r] = fut]
    /\ chat' = [chat EXCEPT ![r] = @ \cup msgs]
    /\ CASE end = "push" ->
              /\ pc' = [pc EXCEPT ![r] = "push"]
              /\ UNCHANGED <<queue, running, draining, startOrder>>
         [] end = "return" -> TaskReturned(r, [pc EXCEPT ![r] = "done"])
         [] end = "throw" -> TaskThrew(r, [pc EXCEPT ![r] = "threw"])

\* new HeldTask(complete, cancel)
HeldTask(completeOp, cancelOp) == [complete |-> completeOp, cancel |-> cancelOp]
NoTask == [complete |-> "none", cancel |-> "none"]

\* ------------------------------------------------------------ HeldTask registry
\* Invoking a closure of the HeldTask of request a.
\* "complete" (lines 87-90): outcomeComplete() = completeFunding, which adds the
\* points to the spreadsheet object the task read (line 121) and starts its
\* push (line 122).  "cancel" (lines 91-94): starts the redemption update.
Invoke(op, a) ==
    IF op = "complete"
    THEN /\ completeRuns' = [completeRuns EXCEPT ![a] = @ + 1]
         /\ cpc' = [cpc EXCEPT ![a] = "push"]
         /\ snap' = [snap EXCEPT ![a] = addPointsToEntry(@, a)]
         /\ UNCHANGED <<cancelRuns, xpc>>
    ELSE /\ cancelRuns' = [cancelRuns EXCEPT ![a] = @ + 1]
         /\ xpc' = [xpc EXCEPT ![a] = "update"]
         /\ UNCHANGED <<completeRuns, cpc, snap>>

\* heldTasksByUserId.addHeldTask(key, heldTask, timeout): the entry for key is
\* set (silently replacing one that is there) and the deadline timer started
addHeldTask(key, a, task) ==
    /\ held' = [held EXCEPT ![key] = a]
    /\ htask' = [htask EXCEPT ![a] = task]
    /\ hstate' = [hstate EXCEPT ![a] = "pending"]
    /\ timer' = [timer EXCEPT ![a] = TRUE]
    /\ UNCHANGED <<completeRuns, cancelRuns, cpc, xpc, yesOn, expired, lastReport>>

\* A settlement that invokes the closure without settling the entry
Settle_NoSettlement(key, how) ==
    LET a == held[key] IN
    /\ UNCHANGED <<hstate, timer, held>>
    /\ Invoke(IF how = "completed" THEN htask[a].complete ELSE htask[a].cancel, a)

\* A settlement that leaves the settled entry in the registry
Settle_LeavesEntry(key, how) ==
    LET a == held[key] IN
    /\ hstate' = [hstate EXCEPT ![a] = how]
    /\ timer' = [timer EXCEPT ![a] = FALSE]
    /\ UNCHANGED held
    /\ Invoke(IF how = "completed" THEN htask[a].complete ELSE htask[a].cancel, a)

\* Settlement of the pending entry of key: state set, timer cancelled, entry
\* removed, then the closure invoked
Settle(key, how) ==
    LET a == held[key] IN
    /\ hstate' = [hstate EXCEPT ![a] = how]
    /\ timer' = [timer EXCEPT ![a] = FALSE]
    /\ held' = [held EXCEPT ![key] = 0]
    /\ Invoke(IF how = "completed" THEN htask[a].complete ELSE htask[a].cancel, a)

\* A pending HeldTask is registered under key
Pending(key) == held[key] # 0 /\ hstate[held[key]] = "pending"

\* heldTasksByUserId.complete(key), called by the !yes chat command of user key
complete(key) ==
    /\ IF ~Pending(key)
       THEN /\ lastReport' = "nothing"
            /\ UNCHANGED <<held, hstate, timer, completeRuns, cancelRuns, cpc,
                           xpc, yesOn, snap>>
       ELSE /\ lastReport' = "found"
            /\ yesOn' = yesOn \cup {held[key]}
            /\ Settle(key, "completed")
    /\ UNCHANGED <<sheets, reqVars, execVars, initEntry, sheetVars, future,
                   redemption, chat, htask, expired>>

\* heldTasksByUserId.cancel(key), called by the !no chat command of user key
cancel(key) ==
    /\ IF ~Pending(key)
       THEN /\ lastReport' = "nothing"
            /\ UNCHANGED <<held, hstate, timer, completeRuns, cancelRuns, cpc,
                           xpc, snap>>
       ELSE /\ lastReport' = "found"
            /\ Settle(key, "cancelled")
    /\ UNCHANGED <<sheets, reqVars, execVars, initEntry, sheetVars, future,
                   redemption, chat, htask, expired, yesOn>>

\* The deadline timer of the HeldTask of request a fires: the entry is
\* cancelled if it is still the pending entry of its key
deadline(a) ==
    /\ timer[a]
    /\ expired' = expired \cup {a}
    /\ IF held[req[a].user] = a /\ hstate[a] = "pending"
       THEN Settle(req[a].user, "cancelled")
       ELSE /\ timer' = [timer EXCEPT ![a] = FALSE]
            /\ UNCHANGED <<held, hstate, completeRuns, cancelRuns, cpc, xpc, snap>>
    /\ UNCHANGED <<sheets, reqVars, execVars, initEntry, sheetVars, future,
                   redemption, chat, htask, yesOn, lastReport>>

ChatYes == \E k \in Users : complete(k)
ChatNo == \E k \in Users : cancel(k)
DeadlineFires == \E a \in Req : deadline(a)

\* ------------------------------------------------------------ task bodies
\* handleGameRequestRedeem with the closures handed over the wrong way round
RedeemPending_Swapped(r) ==
    addHeldTask(req[r].user, r, HeldTask("cancel", "complete"))

\* handleGameRequestRedeem, lines 83-97: the outcome is PendingConfirmation, the
\* user is asked to confirm and the HeldTask registered under the user id
RedeemPending(r) ==
    addHeldTask(req[r].user, r, HeldTask("complete", "cancel"))

\* overfundAmount of line 131 for request r reading sheet S
overfundAmount(S, r) == pointsContributed(S) + req[r].cost - PointsToActivate

\* handleGameRequestFund's task with `<` for the `<=` of line 126
FundTask_Read_StrictlyUnder(r, ok) ==
    LET contributed == pointsContributed(remoteGR)
        notCurrentlyOverfunded == contributed < PointsToActivate
        wouldBeOverfunded == contributed + req[r].cost > PointsToActivate
    IN
    IF ~ok
    THEN /\ TaskStep(r, "throw", "same", {})
         /\ UNCHANGED <<snap, heldVars>>
    ELSE IF ~findEntry(remoteGR)
    THEN /\ TaskStep(r, "return", "Unfulfilled", {"newRequest"})
         /\ snap' = [snap EXCEPT ![r] = remoteGR]
         /\ UNCHANGED heldVars
    ELSE IF notCurrentlyOverfunded /\ wouldBeOverfunded
    THEN /\ TaskStep(r, "return", "PendingConfirmation", {"confirm"})
         /\ snap' = [snap EXCEPT ![r] = remoteGR]
         /\ RedeemPending(r)
    ELSE /\ TaskStep(r, "push", "same", {})
         /\ snap' = [snap EXCEPT ![r] = addPointsToEntry(remoteGR, r)]
         /\ UNCHANGED heldVars

\* handleGameRequestFund's task with the return of line 134 missing: after
\* resolving PendingConfirmation it goes on to completeFunding
FundTask_Read_NoReturn(r, ok) ==
    LET contributed == pointsContributed(remoteGR)
        notCurrentlyOverfunded == contributed <= PointsToActivate
        wouldBeOverfunded == contributed + req[r].cost > PointsToActivate
    IN
    IF ~ok
    THEN /\ TaskStep(r, "throw", "same", {})
         /\ UNCHANGED <<snap, heldVars>>
    ELSE IF ~findEntry(remoteGR)
    THEN /\ TaskStep(r, "return", "Unfulfilled", {"newRequest"})
         /\ snap' = [snap EXCEPT ![r] = remoteGR]
         /\ UNCHANGED heldVars
    ELSE IF notCurrentlyOverfunded /\ wouldBeOverfunded
    THEN /\ TaskStep(r, "push", "PendingConfirmation", {"confirm"})
         /\ snap' = [snap EXCEPT ![r] = addPointsToEntry(remoteGR, r)]
         /\ RedeemPending(r)
    ELSE /\ TaskStep(r, "push", "same", {})
         /\ snap' = [snap EXCEPT ![r] = addPointsToEntry(remoteGR, r)]
         /\ UNCHANGED heldVars

\* handleGameRequestFund's task, lines 112-137, from its start to the await of
\* pushSpreadsheet: ok is whether getGameRequestSpreadsheet succeeded
FundTask_Read(r, ok) ==
    LET contributed == pointsContributed(remoteGR)
        notCurrentlyOverfunded == contributed <= PointsToActivate
        wouldBeOverfunded == contributed + req[r].cost > PointsToActivate
    IN
    IF ~ok
    THEN /\ TaskStep(r, "throw", "same", {})
         /\ UNCHANGED <<snap, heldVars>>
    ELSE IF ~findEntry(remoteGR)
    THEN /\ TaskStep(r, "return", "Unfulfilled", {"newRequest"})
         /\ snap' = [snap EXCEPT ![r] = remoteGR]
         /\ UNCHANGED heldVars
    ELSE IF notCurrentlyOverfunded /\ wouldBeOverfunded
    THEN /\ TaskStep(r, "return", "PendingConfirmation", {"confirm"})
         /\ snap' = [snap EXCEPT ![r] = remoteGR]
         /\ RedeemPending(r)
    ELSE /\ TaskStep(r, "push", "same", {})
         /\ snap' = [snap EXCEPT ![r] = addPointsToEntry(remoteGR, r)]
         /\ UNCHANGED heldVars

\* handleGameRequestFund's task, lines 122-123 and 138: the push of
\* completeFunding has completed (ok) or failed
FundTask_Push(r, ok) ==
    IF ok
    THEN /\ remoteGR' = pushSpreadsheet(snap[r])
         /\ pushed' = pushed \cup {r}
         /\ TaskStep(r, "return", "Fulfilled", {"added"})
         /\ UNCHANGED <<remoteBW, heldPushed>>
    ELSE /\ TaskStep(r, "throw", "same", {})
         /\ UNCHANGED sheetVars

\* handleGameRequestAdd's task with the return of line 163 missing: an
\* existing entry is reported and the entry added all the same
AddTask_Read_NoReturn(r, ok) ==
    IF ~ok
    THEN /\ TaskStep(r, "return", "void", {"readFailed"})
         /\ UNCHANGED snap
    ELSE IF findEntry(remoteGR)
    THEN /\ TaskStep(r, "push", "void", {"alreadyPresent"})
         /\ snap' = [snap EXCEPT ![r] = addEntry(remoteGR, r)]
    ELSE /\ TaskStep(r, "push", "same", {})
         /\ snap' = [snap EXCEPT ![r] = addEntry(remoteGR, r)]

\* handleGameRequestAdd's task, lines 149-166
AddTask_Read(r, ok) ==
    IF ~ok
    THEN /\ TaskStep(r, "return", "void", {"readFailed"})
         /\ UNCHANGED snap
    ELSE IF findEntry(remoteGR)
    THEN /\ TaskStep(r, "return", "void", {"alreadyPresent"})
         /\ snap' = [snap EXCEPT ![r] = remoteGR]
    ELSE /\ TaskStep(r, "push", "same", {})
         /\ snap' = [snap EXCEPT ![r] = addEntry(remoteGR, r)]

\* handleGameRequestAdd's task, lines 167-169
AddTask_Push(r, ok) ==
    IF ok
    THEN /\ remoteGR' = pushSpreadsheet(snap[r])
         /\ pushed' = pushed \cup {r}
         /\ TaskStep(r, "return", "void", {"added"})
         /\ UNCHANGED <<remoteBW, heldPushed>>
    ELSE /\ TaskStep(r, "throw", "same", {})
         /\ UNCHANGED sheetVars

\* handleCheer's task, lines 180-183: an anonymous cheer
CheerTask_Anonymous(r) ==
    /\ TaskStep(r, "return", "void", {})
    /\ UNCHANGED snap

\* handleCheer's task, lines 184-185
CheerTask_Read(r, ok) ==
    IF ~ok
    THEN /\ TaskStep(r, "throw", "same", {})
         /\ UNCHANGED snap
    ELSE /\ TaskStep(r, "push", "same", {})
         /\ snap' = [snap EXCEPT ![r] = addBitsToUser(remoteBW, r)]

\* handleCheer's task, lines 186-187
CheerTask_Push(r, ok) ==
    IF ok
    THEN /\ remoteBW' = pushSpreadsheet(snap[r])
         /\ pushed' = pushed \cup {r}
         /\ TaskStep(r, "return", "same", {})
         /\ UNCHANGED <<remoteGR, heldPushed>>
    ELSE /\ TaskStep(r, "throw", "same", {})
         /\ UNCHANGED sheetVars

\* handleBidwarContribute's task, lines 198-205: st is the status
\* spendBitsOnEntry returned
ContributeTask_Read(r, ok, st) ==
    LET msgs == IF st.message THEN {"status"} ELSE {} IN
    IF ~ok
    THEN /\ TaskStep(r, "throw", "same", {})
         /\ UNCHANGED snap
    ELSE IF ~st.success
    THEN /\ TaskStep(r, "return", "same", msgs)
         /\ snap' = [snap EXCEPT ![r] = remoteBW]
    ELSE /\ TaskStep(r, "push", "same", msgs)
         /\ snap' = [snap EXCEPT ![r] = spendBitsOnEntry(remoteBW, r)]

\* handleBidwarContribute's task, lines 206-208
ContributeTask_Push(r, ok) ==
    IF ok
    THEN /\ remoteBW' = pushSpreadsheet(snap[r])
         /\ pushed' = pushed \cup {r}
         /\ TaskStep(r, "return", "same", {"added"})
         /\ UNCHANGED <<remoteGR, heldPushed>>
    ELSE /\ TaskStep(r, "throw", "same", {})
         /\ UNCHANGED sheetVars

\* handleBidwarAddEntry's task, lines 218-224 and 227-230: st is the status
\* Bidwar_Spreadsheet.addEntry returned
EntryTask_Read(r, ok, st) ==
    IF ~ok
    THEN /\ TaskStep(r, "return", "same", {"error"})
         /\ UNCHANGED snap
    ELSE IF ~st.success /\ st.message
    THEN /\ TaskStep(r, "return", "same", {"status"})
         /\ snap' = [snap EXCEPT ![r] = remoteBW]
    ELSE /\ TaskStep(r, "push", "same", {})
         /\ snap' = [snap EXCEPT
                        ![r] = IF st.success THEN addEntry(remoteBW, r) ELSE remoteBW]

\* handleBidwarAddEntry's task, lines 225-230
EntryTask_Push(r, ok) ==
    IF ok
    THEN /\ remoteBW' = pushSpreadsheet(snap[r])
         /\ pushed' = pushed \cup {r}
         /\ TaskStep(r, "return", "same", {"added"})
         /\ UNCHANGED <<remoteGR, heldPushed>>
    ELSE /\ TaskStep(r, "return", "same", {"error"})
         /\ UNCHANGED sheetVars

\* handleBidwarAddFunds's task, lines 241-243 and 246-249
FundsTask_Read(r, ok) ==
    IF ~ok
    THEN /\ TaskStep(r, "return", "same", {"error"})
         /\ UNCHANGED snap
    ELSE /\ TaskStep(r, "push", "same", {})
         /\ snap' = [snap EXCEPT ![r] = addBitsToUser(remoteBW, r)]

\* handleBidwarAddFunds's task, lines 244-249
FundsTask_Push(r, ok) ==
    IF ok
    THEN /\ remoteBW' = pushSpreadsheet(snap[r])
         /\ pushed' = pushed \cup {r}
         /\ TaskStep(r, "return", "same", {"added"})
         /\ UNCHANGED <<remoteGR, heldPushed>>
    ELSE /\ TaskStep(r, "return", "same", {"error"})
         /\ UNCHANGED sheetVars

\* ------------------------------------------------------------ task actions
\* An anonymous cheer's task returns before its first await
AnonymousCheerReturns ==
    \E r \in Req :
        /\ pc[r] = "read"
        /\ req[r].kind = "cheer" /\ req[r].anon
        /\ CheerTask_Anonymous(r)
        /\ UNCHANGED <<sheets, reqVars, initEntry, sheetVars, redemption, heldVars>>

\* A task that reads its spreadsheet without awaiting _googleSheets
ReadCompletes_NoAwait ==
    \E r \in Req, ok \in BOOLEAN :
        /\ pc[r] = "read"
        /\ ~(req[r].kind = "cheer" /\ req[r].anon)
        /\ CASE req[r].kind = "redeem" -> FundTask_Read(r, ok)
             [] req[r].kind = "gameAdd" -> AddTask_Read(r, ok) /\ UNCHANGED heldVars
             [] req[r].kind = "cheer" -> CheerTask_Read(r, ok) /\ UNCHANGED heldVars
             [] req[r].kind = "contribute" ->
                    /\ \E st \in Status : ContributeTask_Read(r, ok, st)
                    /\ UNCHANGED heldVars
             [] req[r].kind = "addEntry" ->
                    /\ \E st \in Status : EntryTask_Read(r, ok, st)
                    /\ UNCHANGED heldVars
             [] req[r].kind = "addFunds" -> FundsTask_Read(r, ok) /\ UNCHANGED heldVars
        /\ UNCHANGED <<sheets, reqVars, initEntry, sheetVars, redemption>>

\* The task has awaited _googleSheets and its spreadsheet read completes or fails
ReadCompletes ==
    \E r \in Req, ok \in BOOLEAN :
        /\ pc[r] = "read"
        /\ sheets
        /\ ~(req[r].kind = "cheer" /\ req[r].anon)
        /\ CASE req[r].kind = "redeem" -> FundTask_Read(r, ok)
             [] req[r].kind = "gameAdd" -> AddTask_Read(r, ok) /\ UNCHANGED heldVars
             [] req[r].kind = "cheer" -> CheerTask_Read(r, ok) /\ UNCHANGED heldVars
             [] req[r].kind = "contribute" ->
                    /\ \E st \in Status : ContributeTask_Read(r, ok, st)
                    /\ UNCHANGED heldVars
             [] req[r].kind = "addEntry" ->
                    /\ \E st \in Status : EntryTask_Read(r, ok, st)
                    /\ UNCHANGED heldVars
             [] req[r].kind = "addFunds" -> FundsTask_Read(r, ok) /\ UNCHANGED heldVars
        /\ UNCHANGED <<sheets, reqVars, initEntry, sheetVars, redemption>>

\* The pushSpreadsheet the task awaits completes or fails
PushCompletes ==
    \E r \in Req, ok \in BOOLEAN :
        /\ pc[r] = "push"
        /\ CASE req[r].kind = "redeem" -> FundTask_Push(r, ok)
             [] req[r].kind = "gameAdd" -> AddTask_Push(r, ok)
             [] req[r].kind = "cheer" -> CheerTask_Push(r, ok)
             [] req[r].kind = "contribute" -> ContributeTask_Push(r, ok)
             [] req[r].kind = "addEntry" -> EntryTask_Push(r, ok)
             [] req[r].kind = "addFunds" -> FundsTask_Push(r, ok)
        /\ UNCHANGED <<sheets, reqVars, initEntry, snap, redemption, heldVars>>

\* A handleGameRequestRedeem that marks the redemption fulfilled whatever the
\* outcome type (the test of line 78 missing)
RedeemFulfilled_AnyOutcome ==
    \E r \in Req :
        /\ future[r] \in {"Fulfilled", "Unfulfilled", "PendingConfirmation"}
        /\ redemption[r] = "open"
        /\ redemption' = [redemption EXCEPT ![r] = "fulfilled"]
        /\ UNCHANGED <<sheets, reqVars, execVars, snap, initEntry, sheetVars,
                       future, chat, heldVars>>

\* handleGameRequestRedeem, lines 78-81: the outcome is Fulfilled and the
\* redemption is marked fulfilled
RedeemFulfilled ==
    \E r \in Req :
        /\ future[r] = "Fulfilled"
        /\ redemption[r] = "open"
        /\ redemption' = [redemption EXCEPT ![r] = "fulfilled"]
        /\ UNCHANGED <<sheets, reqVars, execVars, snap, initEntry, sheetVars,
                       future, chat, heldVars>>

\* A complete closure that goes on to the redemption update when the push of
\* completeFunding has failed
HeldPushCompletes_IgnoresFailure ==
    \E a \in Req, ok \in BOOLEAN :
        /\ cpc[a] = "push"
        /\ IF ok
           THEN /\ remoteGR' = pushSpreadsheet(snap[a])
                /\ heldPushed' = heldPushed \cup {a}
                /\ chat' = [chat EXCEPT ![a] = @ \cup {"added"}]
                /\ cpc' = [cpc EXCEPT ![a] = "update"]
                /\ UNCHANGED <<remoteBW, pushed>>
           ELSE /\ cpc' = [cpc EXCEPT ![a] = "update"]
                /\ UNCHANGED <<sheetVars, chat>>
        /\ UNCHANGED <<sheets, reqVars, execVars, snap, initEntry, future,
                       redemption, held, htask, hstate, timer, completeRuns,
                       cancelRuns, xpc, yesOn, expired, lastReport>>

\* ------------------------------------------------------------ held closures
\* The complete closure of request a, lines 122-123 run from line 88: the push
\* of completeFunding completes (ok) or fails
HeldPushCompletes ==
    \E a \in Req, ok \in BOOLEAN :
        /\ cpc[a] = "push"
        /\ IF ok
           THEN /\ remoteGR' = pushSpreadsheet(snap[a])
                /\ heldPushed' = heldPushed \cup {a}
                /\ chat' = [chat EXCEPT ![a] = @ \cup {"added"}]
                /\ cpc' = [cpc EXCEPT ![a] = "update"]
                /\ UNCHANGED <<remoteBW, pushed>>
           ELSE /\ cpc' = [cpc EXCEPT ![a] = "threw"]
                /\ UNCHANGED <<sheetVars, chat>>
        /\ UNCHANGED <<sheets, reqVars, execVars, snap, initEntry, future,
                       redemption, held, htask, hstate, timer, completeRuns,
                       cancelRuns, xpc, yesOn, expired, lastReport>>

\* The complete closure of request a, line 89
HeldFulfilled ==
    \E a \in Req :
        /\ cpc[a] = "update"
        /\ redemption' = [redemption EXCEPT ![a] = "fulfilled"]
        /\ cpc' = [cpc EXCEPT ![a] = "done"]
        /\ UNCHANGED <<sheets, reqVars, execVars, snap, initEntry, sheetVars,
                       future, chat, held, htask, hstate, timer, completeRuns,
                       cancelRuns, xpc, yesOn, expired, lastReport>>

\* The cancel closure of request a, lines 92-93
HeldRefunded ==
    \E a \in Req :
        /\ xpc[a] = "update"
        /\ redemption' = [redemption EXCEPT ![a] = "canceled"]
        /\ chat' = [chat EXCEPT ![a] = @ \cup {"refunded"}]
        /\ xpc' = [xpc EXCEPT ![a] = "done"]
        /\ UNCHANGED <<sheets, reqVars, execVars, snap, initEntry, sheetVars,
                       future, held, htask, hstate, timer, completeRuns,
                       cancelRuns, cpc, yesOn, expired, lastReport>>

\* ------------------------------------------------------------ specification
\* ------------------------------------------------------------ Future
\* Future.resolve on a Future in state f: the first call settles it, a later
\* call leaves it as it is
resolve_Overwrites(f, v) == v

resolve(f, v) == IF f = Unsettled THEN v ELSE f

\* ------------------------------------------------------------ TwitchBotBase tokens
\* loadAuthToken, lines 485-519: the token request answers with an
\* access_token (resolve, line 499) or without (reject, line 505)
loadAuthToken ==
    \E ok \in BOOLEAN, v \in Tokens :
        /\ tpc = "loadAuthToken"
        /\ IF ok
           THEN /\ twitchAppToken' = resolve(twitchAppToken, v)
                /\ tpc' = "loadUserToken"
           ELSE /\ tpc' = "failed"
                /\ UNCHANGED twitchAppToken
        /\ UNCHANGED <<userAccessToken, stored, listening, requests,
                       resolveCalls, recv, early>>

\* storeUserTokenResponse, lines 547-551: store the token, resolve
\* _userAccessToken with it; the awaiters waiting on a Future that this call
\* settles resume with its value
storeUserTokenResponse(v) ==
    /\ stored' = TRUE
    /\ userAccessToken' = resolve(userAccessToken, v)
    /\ resolveCalls' = resolveCalls + 1
    /\ recv' = [a \in Awaiters |->
                   IF recv[a] = Waiting THEN userAccessToken' ELSE recv[a]]

\* loadUserToken, lines 553-619: a stored token that refreshes with the
\* requested scope is stored and the function returns (558-567); otherwise
\* the http server is started and the authorization page opened (574-618)
loadUserToken ==
    \E refreshed \in BOOLEAN, v \in Tokens :
        /\ tpc = "loadUserToken"
        /\ tpc' = "started"
        /\ IF stored /\ refreshed
           THEN /\ storeUserTokenResponse(v)
                /\ UNCHANGED listening
           ELSE /\ listening' = TRUE
                /\ UNCHANGED <<userAccessToken, stored, resolveCalls, recv>>
        /\ UNCHANGED <<twitchAppToken, requests, early>>

\* handleRequest, lines 575-611: a request to the http server; with an
\* authorization code that the identity service exchanges for a token (ok)
\* the token is stored, otherwise the handler throws (583, 605)
handleRequest ==
    \E ok \in BOOLEAN, v \in Tokens :
        /\ listening
        /\ requests < MaxRequests
        /\ requests' = requests + 1
        /\ IF ok
           THEN storeUserTokenResponse(v)
           ELSE UNCHANGED <<userAccessToken, stored, resolveCalls, recv>>
        /\ UNCHANGED <<tpc, twitchAppToken, listening, early>>

\* `await this._userAccessToken` (lines 366, 691, 706): the awaiter gets the
\* value of a settled Future, or waits; the welcome message of line 672 can
\* only arrive on the websocket _startup creates at line 627
awaitUserAccessToken ==
    \E a \in Awaiters :
        /\ recv[a] = Idle
        /\ a = "handleEventSubWelcome" => tpc = "started"
        /\ recv' = [recv EXCEPT ![a] = userAccessToken]
        /\ early' = IF userAccessToken = Unsettled THEN early \cup {a} ELSE early
        /\ UNCHANGED <<tpc, twitchAppToken, userAccessToken, stored, listening,
                       requests, resolveCalls>>

\* ------------------------------------------------------------ twitch ids
\* The promise of getTwitchId rejected
Rejected == 0

\* A getTwitchId that asks the user-info endpoint with the user token when no
\* username is given
getTwitchId_ForToken(username, ok, id) == IF ok THEN id ELSE Rejected

\* getTwitchId, lines 389-429: rejects when no username is given (392-395);
\* otherwise asks the user-info endpoint, which answers with an id (ok) or
\* with an error
getTwitchId(username, ok, id) ==
    IF username = NoName THEN Rejected
    ELSE IF ok THEN id ELSE Rejected

\* getTwitchIdWithCache() without username, lines 364-381, from the point
\* where its await of _userAccessToken (366) has given it the token: the
\* user_id of the token if it has one, else getTwitchId(undefined), whose id
\* would be written into the token (377) and whose rejection is thrown (371)
getTwitchIdWithCache_Token ==
    \E ok \in BOOLEAN, id \in Ids :
        /\ selfpc = "idle"
        /\ recv["getTwitchIdWithCache"] \in Tokens
        /\ IF tokenUserId # NoId
           THEN selfpc' = "returned" /\ UNCHANGED tokenUserId
           ELSE LET got == getTwitchId(NoName, ok, id)
                IN  IF got = Rejected
                    THEN selfpc' = "threw" /\ UNCHANGED tokenUserId
                    ELSE selfpc' = "returned" /\ tokenUserId' = got
        /\ UNCHANGED subscription

\* A handleEventSubWelcome that reads the Future without awaiting it
subscribe_NoAwait ==
    /\ subscription = NotSent
    /\ recv["handleEventSubWelcome"] # Idle
    /\ subscription' = userAccessToken
    /\ UNCHANGED <<tokenUserId, selfpc>>

\* handleEventSubWelcome, lines 688-696, from the point where its await of
\* _userAccessToken (691) has given it the token: the subscription request is
\* sent with that token
subscribe ==
    /\ subscription = NotSent
    /\ recv["handleEventSubWelcome"] \in Tokens
    /\ subscription' = recv["handleEventSubWelcome"]
    /\ UNCHANGED <<tokenUserId, selfpc>>

\* ------------------------------------------------------------ id cache
\* getTwitchIdWithCache(username), lines 364-367: call l for username n finds
\* the id in _twitchIdByUsername and returns it, or goes on to getTwitchId
getTwitchIdWithCache_Call ==
    \E l \in Lookups, n \in Names :
        /\ lpc[l] = "idle"
        /\ lname' = [lname EXCEPT ![l] = n]
        /\ lpc' = [lpc EXCEPT ![l] =
                      IF twitchIdByUsername[n] # NoId THEN "returned" ELSE "fetching"]
        /\ UNCHANGED <<twitchIdByUsername, lstale, staleEntry, parts>>

\* getTwitchIdWithCache(username), lines 368-381: the getTwitchId call l
\* awaits (which itself awaits _twitchAppToken, line 400) is answered; the id
\* is stored in _twitchIdByUsername (375), a rejection is thrown (371)
getTwitchIdWithCache_Response ==
    \E l \in Lookups, ok \in BOOLEAN, id \in Ids :
        /\ lpc[l] = "fetching"
        /\ twitchAppToken # Unsettled
        /\ LET got == getTwitchId(lname[l], ok, id)
           IN  IF got = Rejected
               THEN /\ lpc' = [lpc EXCEPT ![l] = "threw"]
                    /\ UNCHANGED <<twitchIdByUsername, staleEntry>>
               ELSE /\ lpc' = [lpc EXCEPT ![l] = "returned"]
                    /\ twitchIdByUsername' =
                           [twitchIdByUsername EXCEPT ![lname[l]] = got]
                    /\ staleEntry' = IF l \in lstale
                                     THEN staleEntry \cup {lname[l]}
                                     ELSE staleEntry \ {lname[l]}
        /\ UNCHANGED <<lname, lstale, parts>>

\* handlePartMessage, lines 259-264: delete the cache entry of the username
handlePartMessage ==
    \E n \in Names :
        /\ parts < MaxParts
        /\ parts' = parts + 1
        /\ twitchIdByUsername' = [twitchIdByUsername EXCEPT ![n] = NoId]
        /\ lstale' = lstale \cup {l \in Lookups : lpc[l] = "fetching" /\ lname[l] = n}
        /\ staleEntry' = staleEntry \ {n}
        /\ UNCHANGED <<lpc, lname>>

CacheNext ==
    \/ loadAuthToken /\ UNCHANGED <<googleVars, auxVars>>
    \/ getTwitchIdWithCache_Call /\ UNCHANGED <<googleVars, twitchVars, tokenUseVars, chatVars, cmdVars>>
    \/ getTwitchIdWithCache_Response /\ UNCHANGED <<googleVars, twitchVars, tokenUseVars, chatVars, cmdVars>>
    \/ handlePartMessage /\ UNCHANGED <<googleVars, twitchVars, tokenUseVars, chatVars, cmdVars>>

\* TwitchBotBase after construction, the GoogleAPI left aside
BotInit == Init /\ initEntry = FALSE

\* The id cache of TwitchBotBase alone
CacheSpec == BotInit /\ [][CacheNext]_vars

\* ------------------------------------------------------------ TwitchBotBase.chat
\* TwitchBotBase.maxChatMessageLength, line 164
maxChatMessageLength == 500

\* The text of line 744
Placeholder == "<Message was too long. Please file a bug report with the owner :)>"

\* The message of n characters c
RECURSIVE Message(_, _)
Message(n, c) ==
    IF n = 0 THEN ""
    ELSE IF n = 1 THEN c
    ELSE Message(n \div 2, c) \o Message(n - (n \div 2), c)

Chars == {"a", "b"}
MsgLengths ==
    {0, 1} \cup ((maxChatMessageLength - Margin)..(maxChatMessageLength + Margin))
Messages == {Message(n, c) : n \in MsgLengths, c \in Chars}

\* A chat that lets one character too many through
actualMessage_OffByOne(message) ==
    IF Len(message) > maxChatMessageLength + 1 THEN Placeholder ELSE message

\* TwitchBotBase.chat, lines 742-746: the message handed to super.chat
actualMessage(message) ==
    IF Len(message) > maxChatMessageLength THEN Placeholder ELSE message

\* TwitchBotBase.chat, lines 741-748
TwitchBotBase_chat ==
    \E message \in Messages :
        /\ Len(ircChat) < MaxChats
        /\ ircChat' = Append(ircChat, [message |-> message,
                                       forwarded |-> actualMessage(message)])

ChatNext ==
    TwitchBotBase_chat /\ UNCHANGED <<googleVars, twitchVars, tokenUseVars, cacheVars, cmdVars>>

\* TwitchBotBase.chat alone
ChatSpec == BotInit /\ [][ChatNext]_vars

\* ------------------------------------------------------------ callCommandFunctionFromConfig
Games == 1..NumGames
Substrings == 1..NumSubstrings

\* ITwitchBotAuxCommandConfig, lines 105-107: each filter is undefined or a
\* list (`set` says which); a title is the set of the substrings it includes
Commands ==
    {c \in [whitelistSet : BOOLEAN, autoPostGameWhitelist : SUBSET Games,
            containsSet : BOOLEAN, autoPostIfTitleContainsAny : SUBSET Substrings] :
        /\ ~c.whitelistSet => c.autoPostGameWhitelist = {}
        /\ ~c.containsSet => c.autoPostIfTitleContainsAny = {}}
Titles == SUBSET Substrings

Outcome(d, f) == [delegated |-> d, fetches |-> f]

\* A callCommandFunctionFromConfig that skips the title filter once the game
\* whitelist has passed
callCommandFunctionFromConfig_WhitelistSuffices(command, game_name, title, fetched) ==
    IF command.whitelistSet /\ ~fetched THEN Outcome(FALSE, 1)
    ELSE IF command.whitelistSet /\ game_name \notin command.autoPostGameWhitelist
    THEN Outcome(FALSE, 1)
    ELSE IF command.whitelistSet THEN Outcome(TRUE, 1)
    ELSE IF command.containsSet /\ ~fetched THEN Outcome(FALSE, 1)
    ELSE IF command.containsSet /\ title \cap command.autoPostIfTitleContainsAny = {}
    THEN Outcome(FALSE, 1)
    ELSE Outcome(TRUE, IF command.containsSet THEN 1 ELSE 0)

\* callCommandFunctionFromConfig, lines 196-234: whether the call reaches
\* super.callCommandFunctionFromConfig (233) and how often it called
\* getChannelDetails, for the stream's game_name and title; fetched is
\* whether getChannelDetails resolves (else it rejects: catch of 228-231)
callCommandFunctionFromConfig(command, game_name, title, fetched) ==
    LET first == IF command.whitelistSet THEN 1 ELSE 0
        second == IF command.containsSet /\ first = 0 THEN 1 ELSE 0
    IN  IF command.whitelistSet /\ ~fetched THEN Outcome(FALSE, first)
        ELSE IF command.whitelistSet /\ game_name \notin command.autoPostGameWhitelist
        THEN Outcome(FALSE, first)
        ELSE IF second = 1 /\ ~fetched THEN Outcome(FALSE, first + second)
        ELSE IF command.containsSet /\ title \cap command.autoPostIfTitleContainsAny = {}
        THEN Outcome(FALSE, first + second)
        ELSE Outcome(TRUE, first + second)

\* A command comes up for automatic posting
autoPost ==
    \E command \in Commands, game_name \in Games, title \in Titles, fetched \in BOOLEAN :
        /\ Len(cmdCalls) < MaxCalls
        /\ cmdCalls' = Append(cmdCalls,
               [command |-> command, game_name |-> game_name, title |-> title,
                fetched |-> fetched,
                outcome |-> callCommandFunctionFromConfig(command, game_name, title, fetched)])

CommandNext ==
    autoPost /\ UNCHANGED <<googleVars, twitchVars, tokenUseVars, cacheVars, chatVars>>

\* callCommandFunctionFromConfig alone
CommandSpec == BotInit /\ [][CommandNext]_vars

TwitchNext ==
    \/ loadAuthToken /\ UNCHANGED <<googleVars, auxVars>>
    \/ loadUserToken /\ UNCHANGED <<googleVars, auxVars>>
    \/ handleRequest /\ UNCHANGED <<googleVars, auxVars>>
    \/ awaitUserAccessToken /\ UNCHANGED <<googleVars, auxVars>>
    \/ getTwitchIdWithCache_Token /\ UNCHANGED <<googleVars, twitchVars, cacheVars, chatVars, cmdVars>>
    \/ subscribe /\ UNCHANGED <<googleVars, twitchVars, cacheVars, chatVars, cmdVars>>

\* TwitchBotBase alone: the keychain may or may not hold a token
TwitchSpecInit ==
    /\ GoogleInit /\ initEntry = FALSE
    /\ TwitchInit /\ stored \in BOOLEAN
    /\ TokenUseInit /\ tokenUserId \in {NoId} \cup Ids
    /\ CacheInit
    /\ ChatInit
    /\ CommandInit

TwitchSpec == TwitchSpecInit /\ [][TwitchNext]_vars

Next ==
    \/ startup /\ UNCHANGED <<twitchVars, auxVars>>
    \/ handleGameRequestRedeem /\ UNCHANGED <<twitchVars, auxVars>>
    \/ handleGameRequestAdd /\ UNCHANGED <<twitchVars, auxVars>>
    \/ handleCheer /\ UNCHANGED <<twitchVars, auxVars>>
    \/ handleBidwarContribute /\ UNCHANGED <<twitchVars, auxVars>>
    \/ handleBidwarAddEntry /\ UNCHANGED <<twitchVars, auxVars>>
    \/ handleBidwarAddFunds /\ UNCHANGED <<twitchVars, auxVars>>
    \/ AnonymousCheerReturns /\ UNCHANGED <<twitchVars, auxVars>>
    \/ ReadCompletes /\ UNCHANGED <<twitchVars, auxVars>>
    \/ PushCompletes /\ UNCHANGED <<twitchVars, auxVars>>
    \/ RedeemFulfilled /\ UNCHANGED <<twitchVars, auxVars>>
    \/ ChatYes /\ UNCHANGED <<twitchVars, auxVars>>
    \/ ChatNo /\ UNCHANGED <<twitchVars, auxVars>>
    \/ DeadlineFires /\ UNCHANGED <<twitchVars, auxVars>>
    \/ HeldPushCompletes /\ UNCHANGED <<twitchVars, auxVars>>
    \/ HeldFulfilled /\ UNCHANGED <<twitchVars, auxVars>>
    \/ HeldRefunded /\ UNCHANGED <<twitchVars, auxVars>>

Spec == Init /\ [][Next]_vars

\* The scheduling the code relies on: startup() is called when the bot starts,
\* and an awaited spreadsheet read or push, or the return of a task that does
\* neither, comes to an end.
FairSpec ==
    /\ Spec
    /\ WF_vars(startup /\ UNCHANGED <<twitchVars, auxVars>>)
    /\ WF_vars(AnonymousCheerReturns /\ UNCHANGED <<twitchVars, auxVars>>)
    /\ WF_vars(ReadCompletes /\ UNCHANGED <<twitchVars, auxVars>>)
    /\ WF_vars(PushCompletes /\ UNCHANGED <<twitchVars, auxVars>>)

TypeOK ==
    /\ sheets \in BOOLEAN
    /\ userAccessToken \in {Unsettled} \cup Tokens
    /\ twitchAppToken \in {Unsettled} \cup Tokens
    /\ \A n \in Names : twitchIdByUsername[n] \in {NoId} \cup Ids
    /\ \A l \in Lookups : lpc[l] \in {"idle", "fetching", "returned", "threw"}
    /\ tokenUserId \in {NoId} \cup Ids
    /\ selfpc \in {"idle", "returned", "threw"}
    /\ subscription \in {NotSent, Unsettled} \cup Tokens
    /\ nreq \in 0..MaxReq
    /\ running \in 0..MaxReq
    /\ draining \in BOOLEAN
    /\ \A r \in Req : pc[r] \in {"none", "queued", "read", "push", "done", "threw"}
    /\ \A r \in Req : future[r] \in {"none", "pending", "void", "Fulfilled",
                                     "Unfulfilled", "PendingConfirmation"}
    /\ \A r \in Req : redemption[r] \in {"none", "open", "fulfilled", "canceled"}
    /\ \A u \in Users : held[u] \in 0..MaxReq
    /\ remoteGR \subseteq Req /\ remoteBW \subseteq Req

\* ------------------------------------------------------------ properties
Executing == {r \in Req : pc[r] \in {"read", "push"}}
Settled == {"completed", "cancelled"}
\* The requests whose task pushed a spreadsheet object holding their change
BidwarPushed == {r \in pushed : req[r].kind \notin GRKinds /\ r \in snap[r]}
GameRequestPushed == {r \in pushed : req[r].kind \in GRKinds /\ r \in snap[r]}

\* C1: at most one task is executing at any instant (suspended on I/O
\* included), the tasks are started in exactly the order they were submitted,
\* and a task submitted while another runs has not started before it finished.
C1_OneTaskAtATimeInOrder ==
    /\ Cardinality(Executing) <= 1
    /\ \A r \in Executing : running = r
    /\ \A i \in 1..Len(startOrder) : startOrder[i] = i
    /\ \A r \in Req : pc[r] = "queued" =>
           \A s \in Req : s > r => pc[s] \in {"none", "queued"}

\* A task suspended on its push, a later one waiting, an earlier one finished
C1_Witness ==
    \E r, s, t \in Req :
        /\ t < r /\ r < s
        /\ pc[t] \in {"done", "threw"}
        /\ pc[r] = "push"
        /\ pc[s] = "queued"

C3_PushOnlyInsideTask == heldPushed = {}

\* C4: once the held completion of a confirmed redemption has pushed, the
\* game-request sheet holds its points and every change tasks pushed.
C4_HeldWriteKeepsOtherChanges ==
    heldPushed # {} => (heldPushed \cup GameRequestPushed) \subseteq remoteGR

\* C5: a task that throws does not stop the queue: a task submitted after it
\* waits only behind a live task submitted after the failed one, and the tasks
\* are started in submission order.
C5_QueueSurvivesThrow ==
    \A t \in Req : pc[t] = "threw" =>
        /\ \A r \in (t + 1)..nreq : pc[r] = "queued" =>
               /\ running \in (t + 1)..(r - 1)
               /\ pc[running] \in {"read", "push"}
        /\ \A i \in 1..Len(startOrder) : startOrder[i] = i

\* A task threw and a task submitted after it has run to its end
C5_Witness ==
    \E t, r \in Req : t < r /\ pc[t] = "threw" /\ pc[r] = "done" /\ r \in pushed

\* C6: for each HeldTask at most one of its complete and cancel closures ever
\* runs, and at most once.
C6_AtMostOneClosureOnce ==
    \A a \in Req : completeRuns[a] + cancelRuns[a] <= 1

\* A completed HeldTask, and a later complete or cancel that found nothing
C6_Witness ==
    \E a \in Req :
        /\ completeRuns[a] = 1
        /\ hstate[a] = "completed"
        /\ lastReport = "nothing"

\* C7: a HeldTask that complete(key) found pending has run its complete
\* closure once and never its cancel closure; when that closure has finished
\* the points are pushed and the redemption is marked fulfilled.
C7_CompleteWins ==
    \A a \in yesOn :
        /\ completeRuns[a] = 1
        /\ cancelRuns[a] = 0
        /\ cpc[a] = "done" => a \in heldPushed /\ redemption[a] = "fulfilled"

\* A confirmed redemption whose complete closure has finished, followed by a
\* cancel(key) or complete(key)
C7_Witness ==
    \E a \in yesOn : cpc[a] = "done" /\ lastReport = "nothing"

\* C8: with no complete or cancel called at all, a HeldTask whose deadline has
\* elapsed has run its cancel closure exactly once and is never fulfilled.
C8_DeadlineCancelsOnce ==
    lastReport = "none" =>
        \A a \in expired :
            /\ cancelRuns[a] = 1
            /\ completeRuns[a] = 0
            /\ redemption[a] # "fulfilled"

\* C9: a HeldTask replaced in the registry by a second one for the same key
\* has, once its deadline has elapsed, run exactly one of its closures.
C9_ReplacedActionStillSettles ==
    \A a \in expired :
        held[req[a].user] # a => completeRuns[a] + cancelRuns[a] = 1

\* C10: a settlement removes the entry of its key from the registry, no
\* settled HeldTask is in the registry, and a complete or cancel for a key
\* with nothing pending reports that and invokes neither closure.
C10_SettledEntryRemoved ==
    [][\A k \in Users :
          /\ (Pending(k) /\ hstate'[held[k]] \in Settled) => held'[k] = 0
          /\ held'[k] # 0 => hstate'[held'[k]] = "pending"
          /\ ((complete(k) \/ cancel(k)) /\ ~Pending(k)) =>
                 /\ lastReport' = "nothing"
                 /\ UNCHANGED <<completeRuns, cancelRuns, held, hstate>>]_vars

\* A HeldTask cancelled by its deadline, then a complete or cancel for its key
\* that found nothing
C10_Witness ==
    \E a \in expired :
        /\ hstate[a] = "cancelled"
        /\ held[req[a].user] = 0
        /\ lastReport = "nothing"

\* C11: the points of a redemption are pushed to the ledger at most once:
\* by its queued task or by its held complete closure, never by both, and the
\* complete closure (one push per run) never runs twice.
C11_PointsAddedAtMostOnce ==
    \A r \in Req : req[r].kind = "redeem" =>
        /\ ~(r \in pushed /\ r \in heldPushed)
        /\ r \in pushed => completeRuns[r] = 0
        /\ completeRuns[r] <= 1

\* One redemption pushed by its task and another pushed by its held
\* completion after confirmation
C11_Witness ==
    \E r, a \in Req :
        /\ req[r].kind = "redeem" /\ r \in pushed /\ future[r] = "Fulfilled"
        /\ req[a].kind = "redeem" /\ a \in heldPushed
        /\ future[a] = "PendingConfirmation"

\* C12: once the task of a handler has run to its end without error, the
\* Future the handler returned is settled.
C12_FutureSettledWhenTaskDone ==
    \A r \in Req : pc[r] = "done" => future[r] # "pending"

\* C13: when a task has failed by throwing, the Future returned to its
\* submitter is settled.
C13_FutureSettledWhenTaskThrew ==
    \A r \in Req : pc[r] = "threw" => future[r] # "pending"

\* C16: a task that threw because its spreadsheet read or push failed has
\* sent a chat message saying the request could not be completed.
C16_FailureIsReported ==
    \A r \in Req : pc[r] = "threw" => chat[r] \cap {"error", "readFailed"} # {}

\* A task that needs the spreadsheets: every task but the one of an anonymous
\* cheer, which returns before awaiting _googleSheets
AwaitsSheets(r) == req[r].kind \in Kinds /\ ~(req[r].kind = "cheer" /\ req[r].anon)

NoDuplicates(q) == \A i, j \in 1..Len(q) : q[i] = q[j] => i = j

\* C17: every task submitted with addTask and startQueue is eventually
\* started by the drain loop, the tasks before it terminating (FairSpec).
C17_SubmittedTaskRuns ==
    \A r \in Req : (pc[r] = "queued") ~> (pc[r] \in {"read", "push", "done", "threw"})

\* A task waits in the queue behind the running one (it was added while the
\* drain loop was active)
C17_Witness ==
    \E r \in Req : pc[r] = "queued" /\ draining /\ running # 0 /\ sheets

\* C18: a handler's startQueue call made while the queue is draining starts
\* no drain loop: the running task stays the running one, no task is started
\* by the call, the new task is only appended, and no task is started twice.
C18_StartQueueWhileDrainingIsNoOp ==
    [][(draining /\ nreq' # nreq) =>
            /\ running' = running
            /\ draining'
            /\ startOrder' = startOrder
            /\ queue' = Append(queue, nreq')
            /\ NoDuplicates(startOrder')]_vars

\* Two handlers called startQueue while a first task was running
C18_Witness ==
    /\ draining
    /\ Len(queue) = 2
    /\ Len(startOrder) = 1
    /\ pc[running] \in {"read", "push"}

\* C19: while _googleSheets is unsettled no spreadsheet is read or pushed, a
\* task awaiting it stays where it is and no task submitted after it starts.
C19_NoLedgerAccessBeforeStartup ==
    ~sheets =>
        /\ pushed = {} /\ heldPushed = {}
        /\ remoteGR = {} /\ remoteBW = {}
        /\ \A r \in Req :
            AwaitsSheets(r) =>
                /\ pc[r] \in {"queued", "read"}
                /\ snap[r] = {}
                /\ chat[r] = {}
                /\ pc[r] = "read" =>
                       \A t \in Req : t > r => pc[t] \in {"none", "queued"}

\* A task awaits the unsettled _googleSheets with a later task queued behind it
C19_Witness ==
    /\ ~sheets
    /\ \E r, t \in Req : r < t /\ AwaitsSheets(r) /\ pc[r] = "read" /\ pc[t] = "queued"

\* C20: the task of a redemption resolved PendingConfirmation pushed nothing,
\* and once its HeldTask is cancelled (by !no or by the deadline) the
\* redemption's points are in no sheet; the cancel closure refunds the
\* redemption and tells the user.
C20_CancelLeavesLedger ==
    \A r \in Req : future[r] = "PendingConfirmation" =>
        /\ r \notin pushed
        /\ hstate[r] = "cancelled" =>
            /\ r \notin heldPushed
            /\ r \notin remoteGR
            /\ completeRuns[r] = 0
            /\ xpc[r] = "done" =>
                   redemption[r] = "canceled" /\ "refunded" \in chat[r]

\* A pending redemption was cancelled and refunded
C20_Witness ==
    \E r \in Req :
        /\ future[r] = "PendingConfirmation"
        /\ hstate[r] = "cancelled"
        /\ xpc[r] = "done"
        /\ redemption[r] = "canceled"

\* C14: once a Future is settled no resolve call changes it, and every awaiter
\* that has got a value, having awaited before settlement or after, has got
\* the value of the Future.
C14_SettledOnceSameValue ==
    [][/\ userAccessToken # Unsettled => userAccessToken' = userAccessToken
       /\ twitchAppToken # Unsettled => twitchAppToken' = twitchAppToken
       /\ \A a \in Awaiters :
              recv'[a] \notin {Idle, Waiting} => recv'[a] = userAccessToken']_vars

\* resolve was called twice; one awaiter had awaited before settlement,
\* another after, and both have a value
C14_Witness ==
    /\ resolveCalls = 2
    /\ \E a \in early, b \in Awaiters \ early :
          recv[a] \in Tokens /\ recv[b] \in Tokens

\* C15: resolve is invoked at most once on _userAccessToken.
C15_ResolvedAtMostOnce == resolveCalls <= 1

\* The game-request sheet as the task of r read it (r's own change, added to
\* the object afterwards, taken out)
SheetRead(r) == snap[r] \ {r}

\* C24: the outcome of handleGameRequestFund is Unfulfilled exactly when the
\* sheet read has no entry (and nothing is written); PendingConfirmation
\* exactly when the entry exists, pointsContributed <= pointsToActivate and
\* pointsContributed + points > pointsToActivate, with overfundAmount >= 1 and
\* the complete operation handed over; Fulfilled only in the remaining case,
\* after the push.
C24_OutcomeClassification ==
    \A r \in Req :
        (req[r].kind = "redeem" /\ future[r] \notin {"none", "pending"}) =>
            LET S == SheetRead(r)
                overfunds == /\ pointsContributed(S) <= PointsToActivate
                             /\ pointsContributed(S) + req[r].cost > PointsToActivate
            IN  /\ (future[r] = "Unfulfilled") <=> ~findEntry(S)
                /\ (future[r] = "Unfulfilled") =>
                       r \notin pushed \cup heldPushed \cup remoteGR
                /\ (future[r] = "PendingConfirmation") <=> (findEntry(S) /\ overfunds)
                /\ (future[r] = "PendingConfirmation") =>
                       /\ overfundAmount(S, r) >= 1
                       /\ htask[r] = HeldTask("complete", "cancel")
                       /\ r \notin pushed
                /\ (future[r] = "Fulfilled") <=> (findEntry(S) /\ ~overfunds)
                /\ (future[r] = "Fulfilled") => r \in pushed

\* A redemption that finds the entry funded exactly up to pointsToActivate is
\* PendingConfirmation after an earlier one was Fulfilled
C24_Witness ==
    \E r, t \in Req :
        /\ future[r] = "Fulfilled"
        /\ future[t] = "PendingConfirmation"
        /\ pointsContributed(SheetRead(t)) = PointsToActivate

\* C25: a redemption is marked fulfilled only after its points were pushed:
\* by its task when the outcome was Fulfilled, by its held completion when it
\* was PendingConfirmation; a failed push leaves it unmarked.
C25_FulfilledOnlyAfterPush ==
    \A r \in Req :
        /\ redemption[r] = "fulfilled" =>
               \/ future[r] = "Fulfilled" /\ r \in pushed
               \/ future[r] = "PendingConfirmation" /\ r \in heldPushed
        /\ (pc[r] = "threw" \/ cpc[r] = "threw") => redemption[r] # "fulfilled"

\* One redemption fulfilled on the direct path, another after confirmation,
\* and a third whose push failed
C25_Witness ==
    \E r, a, t \in Req :
        /\ redemption[r] = "fulfilled" /\ r \in pushed
        /\ redemption[a] = "fulfilled" /\ a \in heldPushed
        /\ req[t].kind = "redeem" /\ (pc[t] = "threw" \/ cpc[t] = "threw")
        /\ t \in snap[t]

\* C26: the status of a redemption is updated at most once, to fulfilled or to
\* canceled: by line 79 when the outcome is Fulfilled (no HeldTask then), or by
\* the one closure of its HeldTask that runs; an Unfulfilled outcome updates
\* nothing and registers no HeldTask.
C26_StatusUpdatedAtMostOnce ==
    \A r \in Req : req[r].kind = "redeem" =>
        /\ completeRuns[r] + cancelRuns[r] <= 1
        /\ future[r] \in {"pending", "Unfulfilled"} =>
               /\ redemption[r] = "open"
               /\ htask[r] = NoTask /\ hstate[r] = "none"
               /\ \A u \in Users : held[u] # r
        /\ future[r] = "Fulfilled" =>
               /\ completeRuns[r] + cancelRuns[r] = 0
               /\ htask[r] = NoTask
               /\ redemption[r] \in {"open", "fulfilled"}
        /\ future[r] = "PendingConfirmation" =>
               /\ redemption[r] = "fulfilled" => cpc[r] = "done" /\ cancelRuns[r] = 0
               /\ redemption[r] = "canceled" => xpc[r] = "done" /\ completeRuns[r] = 0

\* An Unfulfilled redemption, with nothing held for it
C26_Witness ==
    \E r, a \in Req :
        /\ future[r] = "Unfulfilled" /\ pc[r] = "done"
        /\ future[a] = "PendingConfirmation" /\ redemption[a] = "canceled"

\* C27: a handleGameRequestAdd whose read failed or that found the game
\* present has written nothing, has said so in chat and has settled its
\* Future; an entry is pushed only when the sheet read had none.
C27_AddLeavesLedgerUnlessAbsent ==
    \A r \in Req : req[r].kind = "gameAdd" =>
        /\ chat[r] \cap {"readFailed", "alreadyPresent"} # {} =>
               /\ future[r] = "void" /\ pc[r] = "done"
               /\ r \notin pushed /\ r \notin remoteGR /\ r \notin snap[r]
        /\ "alreadyPresent" \in chat[r] => findEntry(snap[r])
        /\ pc[r] \in {"push", "threw"} \/ r \in pushed => ~findEntry(SheetRead(r))
        /\ (pc[r] = "done" /\ r \notin pushed) =>
               chat[r] \cap {"readFailed", "alreadyPresent"} # {}

\* One add whose read failed, one that found the entry, one that pushed it
C27_Witness ==
    \E r, a, t \in Req :
        /\ req[r].kind = "gameAdd" /\ "readFailed" \in chat[r]
        /\ req[a].kind = "gameAdd" /\ "alreadyPresent" \in chat[a]
        /\ req[t].kind = "gameAdd" /\ t \in pushed

C22_SelfLookupSucceeds ==
    (userAccessToken # Unsettled /\ selfpc # "idle") => selfpc = "returned"

\* C28: the EventSub subscription request is sent only once _userAccessToken
\* is settled, and with the settled token.
C28_SubscribeAfterToken ==
    subscription # NotSent =>
        /\ userAccessToken # Unsettled
        /\ subscription = userAccessToken

\* The welcome message was handled while the http server was still waiting
\* for the authorization code, and the request went out after settlement
C28_Witness ==
    /\ subscription \in Tokens
    /\ listening
    /\ "handleEventSubWelcome" \in early

\* C23: an entry of the id cache is never one written by a lookup that was
\* already in flight when the last PART of its username was handled: after a
\* PART the cache has no entry for the username until a lookup started after
\* the PART completes.
C23_NoEntryFromLookupBeforePart ==
    \A n \in Names : twitchIdByUsername[n] # NoId => n \notin staleEntry

\* C29: every message TwitchBotBase.chat forwards has at most 500 characters:
\* a longer message is replaced by the placeholder, a message of at most 500
\* characters is forwarded as it is.
C29_ForwardedAtMost500 ==
    \A i \in 1..Len(ircChat) :
        LET m == ircChat[i].message
            f == ircChat[i].forwarded
        IN  /\ Len(f) <= 500
            /\ Len(m) > 500 => f = Placeholder
            /\ Len(m) <= 500 => f = m

\* A message of exactly 500 characters was forwarded and one of 501 replaced
C29_Witness ==
    /\ Len(ircChat) = 2
    /\ Len(ircChat[1].message) = 500 /\ ircChat[1].forwarded = ircChat[1].message
    /\ Len(ircChat[2].message) = 501 /\ ircChat[2].forwarded = Placeholder

\* C30: callCommandFunctionFromConfig delegates to the base implementation
\* only when every configured filter passes: not when the game whitelist is
\* set and the game is not in it, not when the title list is set and the title
\* includes none of its strings, not when a needed getChannelDetails fails;
\* and it calls getChannelDetails at most once.
C30_PostsOnlyWhenFiltersPass ==
    \A i \in 1..Len(cmdCalls) :
        LET k == cmdCalls[i]
            c == k.command
            inWhitelist == k.game_name \in c.autoPostGameWhitelist
            inTitle == k.title \cap c.autoPostIfTitleContainsAny # {}
        IN  /\ (c.whitelistSet /\ ~inWhitelist) => ~k.outcome.delegated
            /\ (c.containsSet /\ ~inTitle) => ~k.outcome.delegated
            /\ ((c.whitelistSet \/ c.containsSet) /\ ~k.fetched) => ~k.outcome.delegated
            /\ k.outcome.fetches <= 1
            /\ (~c.whitelistSet /\ ~c.containsSet) => k.outcome.fetches = 0

\* A command with both filters set passed both after one fetch
C30_Witness ==
    \E i \in 1..Len(cmdCalls) :
        /\ cmdCalls[i].command.whitelistSet
        /\ cmdCalls[i].command.containsSet
        /\ cmdCalls[i].outcome = Outcome(TRUE, 1)

====
